---------------------------- MODULE Spec2Model ----------------------------
(***************************************************************************)
(* The steady state heat equation notebook (newmodel.ipynb) as a state     *)
(* machine.  One action per code cell, executed in notebook order.         *)
(*                                                                         *)
(* Numbers.  The notebook computes in floating point; the model computes   *)
(* in exact rational arithmetic.  A nodal temperature is an integer count  *)
(* of Unit(mesh)-ths (1.0 is Unit(mesh), 0.0 is 0), an average is a record *)
(* [num, den].  Rounding error of the library's linear solver is therefore *)
(* not part of the model.                                                  *)
(*                                                                         *)
(* Library calls.  FeMesh_Cartesian, specialSets, DirichletCondition,      *)
(* SteadyStateHeat/Solver, Integral and np.isclose are modelled by what    *)
(* they compute for this notebook: a structured Q1 mesh, its bottom and    *)
(* top vertex rows, the Galerkin equations of div(k grad T) = 0 with the   *)
(* Dirichlet nodes held fixed, element-wise quadrature of the bilinear     *)
(* interpolant, and |a - b| <= atol + rtol * |b|.                          *)
(*                                                                         *)
(* Parameters.  The parameter cell is the notebook's input.  The model     *)
(* runs it with the values written in the cell (NotebookResX, ...) and     *)
(* with smaller meshes and boxes as well.                                  *)
(***************************************************************************)
EXTENDS Integers, Sequences, FiniteSets

VARIABLES pc,                \* the code cell to run next (1..9), 10 when the run has ended
          boxHeight, boxLength, resx, resy,
          mesh,
          temperatureField,  \* temperatureField.data: node index -> value
          botWalls, topWalls, bcWalls,
          tempBC,
          fig,               \* the figure: the objects appended to it
          shown,             \* what each fig.show() rendered, in order
          heatequation,
          tottemp, avtemp,
          outcome,           \* "running", "ok", or the error raised
          stages             \* the stages carried out so far, in order

vars == <<pc, boxHeight, boxLength, resx, resy, mesh, temperatureField,
          botWalls, topWalls, bcWalls, tempBC, fig, shown, heatequation,
          tottemp, avtemp, outcome, stages>>

-----------------------------------------------------------------------------
(* Bounds of the exploration *)

MaxRes == 3       \* besides the notebook's resolution: 1..MaxRes elements per axis
MaxBox == 2       \* box length and height range over 1..MaxBox
MaxSlope == 1     \* the solver's search: nodal increment per column / per row
MaxDev == 600     \* CheckSpec: averages 0.5 + k * 1e-8 for |k| <= MaxDev

(* The values written in the notebook *)

NotebookBoxHeight == 1
NotebookBoxLength == 2
NotebookResX == 16
NotebookResY == 8
RtolInv == 100000        \* np.isclose default rtol = 1e-05
AtolInv == 100000000     \* np.isclose default atol = 1e-08

Expected == [num |-> 1, den |-> 2]     \* the 0.5 of np.isclose(avtemp, 0.5)

ErrorMessage == "Incorrect average temperature produced by model. "

ResXs == (1..MaxRes) \cup {NotebookResX}
ResYs == (1..MaxRes) \cup {NotebookResY}
BoxLengths == (1..MaxBox) \cup {NotebookBoxLength}
BoxHeights == (1..MaxBox) \cup {NotebookBoxHeight}

-----------------------------------------------------------------------------
(* Values of names that are not bound yet *)

NoMesh == [elementRes |-> <<0, 0>>, minCoord |-> <<0, 0>>, maxCoord |-> <<0, 0>>]
NoData == [n \in {} |-> 0]
NoCondition == [variable |-> "", indexSets |-> {}]
NoFigure == [objects |-> <<>>]
NoSystem == [temperatureField |-> "", fn_diffusivity |-> 0, conditions |-> NoCondition]
NoNumber == [num |-> 0, den |-> 1]

-----------------------------------------------------------------------------
(* The mesh: uw.mesh.FeMesh_Cartesian("Q1/dQ0", (resx, resy), (0,0), (L,H)) *)

FeMesh_Cartesian(rx, ry, L, H) ==
    [elementRes |-> <<rx, ry>>, minCoord |-> <<0, 0>>, maxCoord |-> <<L, H>>]

ResI(m) == m.elementRes[1]
ResJ(m) == m.elementRes[2]
Length(m) == m.maxCoord[1] - m.minCoord[1]
Height(m) == m.maxCoord[2] - m.minCoord[2]

\* Q1: one node per vertex, numbered row by row from the bottom left.
Nodes(m) == 0 .. ((ResI(m) + 1) * (ResJ(m) + 1) - 1)
NodeI(m, n) == n % (ResI(m) + 1)
NodeJ(m, n) == n \div (ResI(m) + 1)
NodeAt(m, i, j) == i + j * (ResI(m) + 1)

\* 1.0 in the model's units.
Unit(m) == ResJ(m)

Abs(x) == IF x < 0 THEN -x ELSE x


-----------------------------------------------------------------------------
(* mesh.specialSets and index set addition *)

BottomVertexSet(m) == {n \in Nodes(m) : NodeJ(m, n) = 0}

\* A slip that names the bottom wall twice.
TopVertexSetAsBottom(m) == BottomVertexSet(m)

TopVertexSet(m) == {n \in Nodes(m) : NodeJ(m, n) = ResJ(m)}

\* botWalls + topWalls
IndexSetAdd(a, b) == a \cup b

DirichletCondition(variable, indexSet) ==
    [variable |-> variable, indexSets |-> indexSet]

-----------------------------------------------------------------------------
(* temperatureField.data *)

\* A slip that initialises the field to 1.
InitDataOne(m) == [n \in Nodes(m) |-> Unit(m)]

\* mesh.add_variable(nodeDofCount=1); temperatureField.data[:] = 0.
InitData(m) == [n \in Nodes(m) |-> 0]

\* data[indexSet] = value
AssignAt(data, indexSet, value) ==
    [n \in DOMAIN data |-> IF n \in indexSet THEN value ELSE data[n]]

\* A slip that swaps the two wall temperatures.
SetWallValuesSwapped(m, data, bot, top) ==
    AssignAt(AssignAt(data, bot, 0), top, Unit(m))

\* data[botWalls] = 1.0; data[topWalls] = 0.0
SetWallValues(m, data, bot, top) ==
    AssignAt(AssignAt(data, bot, Unit(m)), top, 0)

-----------------------------------------------------------------------------
(* The steady state heat system: Galerkin equations on bilinear elements.  *)
(* For an element of size hx by hy the element matrix of grad.grad is      *)
(*   (hy/hx)/6 * Ax + (hx/hy)/6 * Ay,                                      *)
(* with Ax = stiffness(x) (x) mass(y) and Ay = mass(x) (x) stiffness(y).   *)
(* Scaled by 6 * L * H * resx * resy the two weights are the integers      *)
(* (H*resx)^2 and (L*resy)^2.                                              *)

WeightX(m) == (Height(m) * ResI(m)) * (Height(m) * ResI(m))
WeightY(m) == (Length(m) * ResJ(m)) * (Length(m) * ResJ(m))

\* Entry between two local nodes that differ (1) or not (0) in x and in y.
EntryAx(dx, dy) == (IF dx = 0 THEN 1 ELSE -1) * (IF dy = 0 THEN 2 ELSE 1)
EntryAy(dx, dy) == (IF dy = 0 THEN 1 ELSE -1) * (IF dx = 0 THEN 2 ELSE 1)

ElementEntry(m, k, dx, dy) ==
    k * (WeightX(m) * EntryAx(dx, dy) + WeightY(m) * EntryAy(dx, dy))

\* The sum of f over the four corners (0,0), (1,0), (0,1), (1,1).
Sum4(f) == f[0, 0] + f[1, 0] + f[0, 1] + f[1, 1]

\* Row n of the assembled system applied to U (no source term: the right
\* hand side is 0).  The node is local node (a, b) of the element whose
\* lower left vertex is (i - a, j - b).
Residual(m, k, U, n) ==
    LET i == NodeI(m, n)
        j == NodeJ(m, n)
        InElement[a \in {0, 1}, b \in {0, 1}] ==
            LET ei == i - a
                ej == j - b
                Term[c \in {0, 1}, d \in {0, 1}] ==
                    ElementEntry(m, k, Abs(c - a), Abs(d - b)) * U[NodeAt(m, ei + c, ej + d)]
            IN IF ei >= 0 /\ ei < ResI(m) /\ ej >= 0 /\ ej < ResJ(m)
                 THEN Sum4(Term)
                 ELSE 0
    IN Sum4(InElement)

\* A slip that builds the condition from the bottom wall alone.
FixedNodesBottomOnly(m, condition) == condition.indexSets \cap BottomVertexSet(m)

\* The nodes a DirichletCondition holds fixed: indexSetsPerDof=(bcWalls,)
FixedNodes(m, condition) == condition.indexSets

\* U solves the system: it keeps the data at the fixed nodes and satisfies
\* the equation of every other node.
IsSolution(m, system, data, U) ==
    LET fixed == FixedNodes(m, system.conditions)
    IN /\ \A n \in fixed : U[n] = data[n]
       /\ \A n \in Nodes(m) \ fixed : Residual(m, system.fn_diffusivity, U, n) = 0

\* The nodal fields the model's solver searches: a + b * column + c * row.
\* With at least one fixed node the system matrix is positive definite, so
\* a field of the family that satisfies IsSolution is the solution.
AffineField(m, a, b, c) == [n \in Nodes(m) |-> a + b * NodeI(m, n) + c * NodeJ(m, n)]

Family(m) ==
    {AffineField(m, a, b, c) :
        a \in 0..Unit(m), b \in -MaxSlope..MaxSlope, c \in -MaxSlope..MaxSlope}

\* A slip that leaves the solution out of the field.
StoreSolutionNowhere(data, U) == data

\* heatsolver.solve() stores the solution in the field's own data.
StoreSolution(data, U) == U

-----------------------------------------------------------------------------
(* uw.utils.Integral(temperatureField, mesh).evaluate()[0]                 *)

\* A slip that takes the mean of the nodal values times the area.
IntegralNodalMean(m, data) ==
    LET RowSum(j) ==
            LET R[i \in -1 .. ResI(m)] ==
                    IF i = -1 THEN 0 ELSE R[i - 1] + data[NodeAt(m, i, j)]
            IN R[ResI(m)]
        Total[j \in -1 .. ResJ(m)] ==
            IF j = -1 THEN 0 ELSE Total[j - 1] + RowSum(j)
    IN [num |-> Length(m) * Height(m) * Total[ResJ(m)],
        den |-> Cardinality(Nodes(m)) * Unit(m)]

\* Quadrature of the bilinear interpolant, element by element: the area of
\* an element times the mean of its four nodal values.
Integral(m, data) ==
    LET ElemNodes(ei, ej) ==
            LET Val[c \in {0, 1}, d \in {0, 1}] == data[NodeAt(m, ei + c, ej + d)]
            IN Sum4(Val)
        RowSum(ej) ==
            LET R[ei \in -1 .. (ResI(m) - 1)] ==
                    IF ei = -1 THEN 0 ELSE R[ei - 1] + ElemNodes(ei, ej)
            IN R[ResI(m) - 1]
        Total[ej \in -1 .. (ResJ(m) - 1)] ==
            IF ej = -1 THEN 0 ELSE Total[ej - 1] + RowSum(ej)
    IN [num |-> Length(m) * Height(m) * Total[ResJ(m) - 1],
        den |-> 4 * ResI(m) * ResJ(m) * Unit(m)]

\* A slip that forgets to divide by the area.
AverageUndivided(total, H, L) == total

\* tottemp.evaluate()[0] / (boxHeight*boxLength)
Average(total, H, L) == [num |-> total.num, den |-> total.den * (H * L)]

-----------------------------------------------------------------------------
(* np.isclose(a, b) with the default tolerances *)

\* a/b <= c/d for a, c >= 0 and b, d > 0, without forming the products.
RECURSIVE LeqFrac(_, _, _, _)
LeqFrac(a, b, c, d) ==
    LET qa == a \div b
        qc == c \div d
        ra == a % b
        rc == c % d
    IN IF qa # qc THEN qa < qc
       ELSE IF ra = 0 THEN TRUE
       ELSE IF rc = 0 THEN FALSE
       ELSE LeqFrac(d, rc, b, ra)

\* A slip that drops the relative tolerance.
IsCloseAbsoluteOnly(a, b) ==
    LeqFrac(Abs(a.num * b.den - b.num * a.den), a.den * b.den, 1, AtolInv)

\* |a - b| <= atol + rtol * |b|
IsClose(a, b) ==
    LeqFrac(Abs(a.num * b.den - b.num * a.den), a.den * b.den,
            b.den + Abs(b.num) * (AtolInv \div RtolInv), AtolInv * b.den)

\* if not np.isclose(avtemp,0.5): raise RuntimeError(...)
CheckOutcome(av) ==
    IF ~IsClose(av, Expected)
      THEN [error |-> "RuntimeError", message |-> ErrorMessage]
      ELSE [error |-> "", message |-> ""]

Running == [error |-> "running", message |-> ""]
Passed == [error |-> "", message |-> ""]

-----------------------------------------------------------------------------
(* The run: cells in notebook order *)

\* A slip that leaves out the cell that shows the field before the solve.
NextCellSkippingFirstShow(c) == IF c = 5 THEN 7 ELSE c + 1

\* Cells run top to bottom (execution_count 1..9).
NextCell(c) == c + 1

\* A stage that goes on over several statements or cells is entered once.
Enter(log, stage) ==
    IF Len(log) > 0 /\ log[Len(log)] = stage THEN log ELSE Append(log, stage)

\* fig.show(): the surface object draws the field's data as it is now.
Render(figure, data) ==
    IF \E k \in 1..Len(figure.objects) : figure.objects[k] = "Surface(mesh, temperatureField)"
      THEN data
      ELSE NoData

Init ==
    /\ pc = 1
    /\ boxHeight = 0 /\ boxLength = 0 /\ resx = 0 /\ resy = 0
    /\ mesh = NoMesh
    /\ temperatureField = NoData
    /\ botWalls = {} /\ topWalls = {} /\ bcWalls = {}
    /\ tempBC = NoCondition
    /\ fig = NoFigure
    /\ shown = <<>>
    /\ heatequation = NoSystem
    /\ tottemp = NoNumber /\ avtemp = NoNumber
    /\ outcome = Running
    /\ stages = <<>>

\* import underworld as uw; import glucifer
ImportCell ==
    /\ pc = 1
    /\ pc' = NextCell(pc)
    /\ UNCHANGED <<boxHeight, boxLength, resx, resy, mesh, temperatureField,
                   botWalls, topWalls, bcWalls, tempBC, fig, shown, heatequation,
                   tottemp, avtemp, outcome, stages>>

\* model parameters, then the mesh
ParameterMeshCell ==
    /\ pc = 2
    /\ \E H \in BoxHeights, L \in BoxLengths, rx \in ResXs, ry \in ResYs :
          /\ boxHeight' = H
          /\ boxLength' = L
          /\ resx' = rx
          /\ resy' = ry
          /\ mesh' = FeMesh_Cartesian(rx, ry, L, H)
    /\ stages' = Enter(Enter(stages, "parameters"), "mesh")
    /\ pc' = NextCell(pc)
    /\ UNCHANGED <<temperatureField, botWalls, topWalls, bcWalls, tempBC, fig,
                   shown, heatequation, tottemp, avtemp, outcome>>

\* temperatureField = mesh.add_variable(...); temperatureField.data[:] = 0.
VariableCell ==
    /\ pc = 3
    /\ temperatureField' = InitData(mesh)
    /\ stages' = Enter(stages, "mesh")
    /\ pc' = NextCell(pc)
    /\ UNCHANGED <<boxHeight, boxLength, resx, resy, mesh, botWalls, topWalls,
                   bcWalls, tempBC, fig, shown, heatequation, tottemp, avtemp,
                   outcome>>

\* botWalls, topWalls, bcWalls, tempBC
ConditionCell ==
    /\ pc = 4
    /\ botWalls' = BottomVertexSet(mesh)
    /\ topWalls' = TopVertexSet(mesh)
    /\ bcWalls' = IndexSetAdd(botWalls', topWalls')
    /\ tempBC' = DirichletCondition("temperatureField", bcWalls')
    /\ stages' = Enter(stages, "boundary conditions")
    /\ pc' = NextCell(pc)
    /\ UNCHANGED <<boxHeight, boxLength, resx, resy, mesh, temperatureField, fig,
                   shown, heatequation, tottemp, avtemp, outcome>>

\* the wall temperatures
WallValueCell ==
    /\ pc = 5
    /\ temperatureField' = SetWallValues(mesh, temperatureField, botWalls, topWalls)
    /\ stages' = Enter(stages, "boundary conditions")
    /\ pc' = NextCell(pc)
    /\ UNCHANGED <<boxHeight, boxLength, resx, resy, mesh, botWalls, topWalls,
                   bcWalls, tempBC, fig, shown, heatequation, tottemp, avtemp,
                   outcome>>

\* fig = glucifer.Figure(...); two appends; fig.show()
FigureCell ==
    /\ pc = 6
    /\ fig' = [objects |-> <<"Mesh(mesh)", "Surface(mesh, temperatureField)">>]
    /\ shown' = Append(shown, Render(fig', temperatureField))
    /\ stages' = Enter(stages, "visualization")
    /\ pc' = NextCell(pc)
    /\ UNCHANGED <<boxHeight, boxLength, resx, resy, mesh, temperatureField,
                   botWalls, topWalls, bcWalls, tempBC, heatequation, tottemp,
                   avtemp, outcome>>

\* heatequation = SteadyStateHeat(...); heatsolver = Solver(heatequation);
\* heatsolver.solve()
SolveCell ==
    /\ pc = 7
    /\ heatequation' = [temperatureField |-> "temperatureField",
                        fn_diffusivity |-> 1,
                        conditions |-> tempBC]
    /\ \E U \in Family(mesh) :
          /\ IsSolution(mesh, heatequation', temperatureField, U)
          /\ temperatureField' = StoreSolution(temperatureField, U)
    /\ stages' = Enter(stages, "solver")
    /\ pc' = NextCell(pc)
    /\ UNCHANGED <<boxHeight, boxLength, resx, resy, mesh, botWalls, topWalls,
                   bcWalls, tempBC, fig, shown, tottemp, avtemp, outcome>>

\* fig.show()
ShowCell ==
    /\ pc = 8
    /\ shown' = Append(shown, Render(fig, temperatureField))
    /\ stages' = Enter(stages, "visualization")
    /\ pc' = NextCell(pc)
    /\ UNCHANGED <<boxHeight, boxLength, resx, resy, mesh, temperatureField,
                   botWalls, topWalls, bcWalls, tempBC, fig, heatequation,
                   tottemp, avtemp, outcome>>

\* tottemp, avtemp, and the check of avtemp against 0.5
CheckCell ==
    /\ pc = 9
    /\ tottemp' = Integral(mesh, temperatureField)
    /\ avtemp' = Average(tottemp', boxHeight, boxLength)
    /\ outcome' = CheckOutcome(avtemp')
    /\ stages' = Enter(stages, "post-check")
    /\ pc' = NextCell(pc)
    /\ UNCHANGED <<boxHeight, boxLength, resx, resy, mesh, temperatureField,
                   botWalls, topWalls, bcWalls, tempBC, fig, shown, heatequation>>

Next ==
    \/ ImportCell
    \/ ParameterMeshCell
    \/ VariableCell
    \/ ConditionCell
    \/ WallValueCell
    \/ FigureCell
    \/ SolveCell
    \/ ShowCell
    \/ CheckCell

Spec == Init /\ [][Next]_vars

-----------------------------------------------------------------------------
(* The final check on its own: np.isclose and the raise, applied to        *)
(* averages 0.5 + k * 1e-8.                                                *)

InitCheck ==
    /\ pc = 9
    /\ avtemp \in {[num |-> (AtolInv \div 2) + k, den |-> AtolInv] : k \in -MaxDev..MaxDev}
    /\ boxHeight = 0 /\ boxLength = 0 /\ resx = 0 /\ resy = 0
    /\ mesh = NoMesh
    /\ temperatureField = NoData
    /\ botWalls = {} /\ topWalls = {} /\ bcWalls = {}
    /\ tempBC = NoCondition
    /\ fig = NoFigure
    /\ shown = <<>>
    /\ heatequation = NoSystem
    /\ tottemp = NoNumber
    /\ outcome = Running
    /\ stages = <<>>

\* if not np.isclose(avtemp,0.5): raise RuntimeError(...)
CheckStatement ==
    /\ pc = 9
    /\ outcome' = CheckOutcome(avtemp)
    /\ stages' = Enter(stages, "post-check")
    /\ pc' = NextCell(pc)
    /\ UNCHANGED <<boxHeight, boxLength, resx, resy, mesh, temperatureField,
                   botWalls, topWalls, bcWalls, tempBC, fig, shown, heatequation,
                   tottemp, avtemp>>

NextCheck == CheckStatement

CheckSpec == InitCheck /\ [][NextCheck]_vars

-----------------------------------------------------------------------------
(* Properties *)

\* The run with the values written in the notebook's parameter cell.
Scenario ==
    /\ boxHeight = NotebookBoxHeight
    /\ boxLength = NotebookBoxLength
    /\ resx = NotebookResX
    /\ resy = NotebookResY

IsPrefix(s, t) == Len(s) <= Len(t) /\ \A k \in 1..Len(s) : s[k] = t[k]

Raised == [error |-> "RuntimeError", message |-> ErrorMessage]

\* C1: when the run has ended, the integral of the field is half the area
\* of the box, the average (the integral divided by boxHeight*boxLength) is
\* 0.5, it is close to 0.5, and the check has passed without an error: in
\* the notebook's scenario (16 x 8 elements, box 2.0 x 1.0) and in every
\* other run of the model.
C1_AverageIsHalf ==
    pc = 10 =>
        /\ tottemp.num * 2 = tottemp.den * boxHeight * boxLength
        /\ avtemp.num * 2 = avtemp.den
        /\ IsClose(avtemp, Expected)
        /\ outcome = Passed

C1_ScenarioPassed ==
    /\ Scenario
    /\ pc = 10
    /\ outcome = Passed
    /\ avtemp.num * 2 = avtemp.den

\* C2: the check ends in the RuntimeError with the fixed message exactly
\* when the average is further from 0.5 than atol + rtol * 0.5 = 5.01e-6
\* (501 units of 1e-8), and ends without an error otherwise.
C2_RaisesIffNotClose ==
    pc = 10 =>
        LET tolerance == 1 + (AtolInv \div RtolInv) \div 2
            deviation == Abs(avtemp.num - AtolInv \div 2)
        IN /\ avtemp.den = AtolInv
           /\ (outcome = Raised) <=> (deviation > tolerance)
           /\ (outcome = Passed) <=> (deviation <= tolerance)

C2_RaisedJustBeyond ==
    /\ pc = 10
    /\ outcome = Raised
    /\ avtemp.num = AtolInv \div 2 + 502

\* C3 as stated: the stages run in the order parameters, mesh/variable,
\* boundary conditions, solver, visualization, post-check.
C3_StatedOrder ==
    IsPrefix(stages, <<"parameters", "mesh", "boundary conditions", "solver",
                       "visualization", "post-check">>)

\* C3 (amended): the stages run one after the other in the order
\* parameters, mesh/variable, boundary conditions, a first visualization
\* (of the field before the solve), solver, a second visualization,
\* post-check; a finished run has carried out all of them.
C3_AmendedOrder ==
    LET order == <<"parameters", "mesh", "boundary conditions", "visualization",
                   "solver", "visualization", "post-check">>
    IN /\ IsPrefix(stages, order)
       /\ pc = 10 => stages = order

C3_ShownBeforeSolve ==
    /\ pc = 7
    /\ Len(shown) = 1
    /\ stages = <<"parameters", "mesh", "boundary conditions", "visualization">>

\* C4: the solve step leaves every vertex of bcWalls as it was: each bottom
\* vertex holds 1.0 before and after, each top vertex 0.0 before and after.
C4_DirichletHeld ==
    [][pc = 7 =>
          /\ \A n \in bcWalls : temperatureField'[n] = temperatureField[n]
          /\ \A n \in botWalls : temperatureField'[n] = Unit(mesh)
          /\ \A n \in topWalls : temperatureField'[n] = 0]_vars

C4_SolvedInterior ==
    /\ Scenario
    /\ pc = 8
    /\ \A n \in botWalls : temperatureField[n] = Unit(mesh)
    /\ \E n \in Nodes(mesh) \ bcWalls : temperatureField[n] # shown[1][n]

\* C5: the field is zero at every node once it is declared, and in the
\* state before the solve every bottom vertex holds 1.0, every top vertex
\* 0.0 and every other node 0.0.
C5_FieldBeforeSolve ==
    /\ pc \in {4, 5} => \A n \in Nodes(mesh) : temperatureField[n] = 0
    /\ pc \in {6, 7} =>
          \A n \in Nodes(mesh) :
              temperatureField[n] = IF n \in botWalls THEN Unit(mesh) ELSE 0

C5_BeforeSolve ==
    /\ Scenario
    /\ pc = 7
    /\ temperatureField[NodeAt(mesh, 0, 0)] = Unit(mesh)
    /\ temperatureField[NodeAt(mesh, 3, 4)] = 0

\* C6: the solve writes the solution into temperatureField itself: the
\* second fig.show() draws the solved field (on a mesh of two or more rows
\* another picture than the first), the post-check integrates the solved
\* field, and the solve step leaves the mesh, the parameters and the vertex
\* sets as they were.
C6_SolvedInPlace ==
    /\ [](pc >= 9 =>
            /\ Len(shown) = 2
            /\ shown[2] = temperatureField
            /\ IsSolution(mesh, heatequation, shown[1], shown[2])
            /\ resy >= 2 => shown[2] # shown[1])
    /\ [](pc = 10 => tottemp = Integral(mesh, shown[2]))
    /\ [][pc = 7 => UNCHANGED <<mesh, boxHeight, boxLength, resx, resy,
                                botWalls, topWalls, bcWalls>>]_vars

C6_SecondPictureDiffers ==
    /\ Scenario
    /\ pc = 10
    /\ shown[2] # shown[1]
    /\ shown[2] = temperatureField

\* C7: the solve completes, and the solved value at every node of row j is
\* 1 - j/resy, whatever its column; every value lies in [0, 1].
C7_LinearProfile ==
    /\ pc = 7 => ENABLED SolveCell
    /\ pc >= 8 =>
          \A n \in Nodes(mesh) :
              /\ temperatureField[n] * resy = Unit(mesh) * (resy - NodeJ(mesh, n))
              /\ temperatureField[n] >= 0
              /\ temperatureField[n] <= Unit(mesh)

C7_SideWallMidHeight ==
    /\ Scenario
    /\ pc = 8
    /\ temperatureField[NodeAt(mesh, resx, 4)] * 2 = Unit(mesh)
    /\ temperatureField[NodeAt(mesh, 0, 2)] * 4 = Unit(mesh) * 3

\* C8: the bottom and the top vertex set are disjoint, bcWalls is their
\* union and has 2*(resx+1) vertices (34 in the notebook's scenario), the
\* two wall assignments give the same field in either order, and after
\* them each vertex of bcWalls holds its own wall's value.
C8_WallsDisjoint ==
    /\ pc >= 5 =>
          /\ botWalls \cap topWalls = {}
          /\ bcWalls = botWalls \cup topWalls
          /\ Cardinality(bcWalls) = 2 * (resx + 1)
          /\ Scenario => Cardinality(bcWalls) = 34
    /\ pc = 5 =>
          AssignAt(AssignAt(temperatureField, botWalls, Unit(mesh)), topWalls, 0)
            = AssignAt(AssignAt(temperatureField, topWalls, 0), botWalls, Unit(mesh))
    /\ pc \in {6, 7} =>
          /\ \A n \in botWalls : temperatureField[n] = Unit(mesh)
          /\ \A n \in topWalls : temperatureField[n] = 0

C8_WallsAssigned ==
    /\ Scenario
    /\ pc = 6
    /\ Cardinality(bcWalls) = 34
    /\ temperatureField[NodeAt(mesh, resx, 0)] = Unit(mesh)
    /\ temperatureField[NodeAt(mesh, resx, resy)] = 0

\* C9: on the field before the solve the average is 1/(2*resy), 0.0625 in
\* the notebook's scenario, and on a mesh of two or more rows the check
\* would raise the RuntimeError; the check has passed only after the solve.
C9_UnsolvedFails ==
    /\ pc \in {6, 7} =>
          LET av == Average(Integral(mesh, temperatureField), boxHeight, boxLength)
          IN /\ av.num * 2 * resy = av.den
             /\ Scenario => av.num * 16 = av.den
             /\ resy >= 2 => CheckOutcome(av) = Raised
    /\ outcome = Passed =>
          /\ pc = 10
          /\ \E k \in 1..Len(stages) : stages[k] = "solver"

C9_UnsolvedScenario ==
    /\ Scenario
    /\ pc = 7
    /\ CheckOutcome(Average(Integral(mesh, temperatureField), boxHeight, boxLength)) = Raised
=============================================================================
